---- MODULE Spec2Model ----
(***************************************************************************)
(* Model of the CheapCache server (cheap_cache_server.ts): an in-memory    *)
(* key/value cache with per-key TTL and LRU eviction, a registry of live   *)
(* connections that is itself an LRU cache, the per-connection command     *)
(* loop, and the periodic cleanup loop.                                    *)
(*                                                                         *)
(* The clock counts units of ClockUnitMs milliseconds: the source's         *)
(* Date.now() is in milliseconds, and 30 days in milliseconds exceeds the  *)
(* 32-bit integers of the model checker, so every time is scaled down.     *)
(* An LruCache is a sequence of entries [k, v] kept in recency order:      *)
(* least-recently-used first, most-recently-used last.                     *)
(***************************************************************************)
EXTENDS Integers, Sequences, FiniteSets, TLC

VARIABLES
    cache,          \* the key/value LruCache: entries [k, v |-> [value, expireAt]]
    maxCacheItems,  \* current item capacity (changed by LIMIT)
    now,            \* the clock, Date.now()
    connCache,      \* the connection LruCache: entries [k |-> id, v |-> id]
    nextConnId,     \* next connection id
    conns,          \* per accepted connection: handler position and handle state
    outbound,       \* commands the server has sent to a replication peer
    role,           \* the node's role, fixed when the process starts
    peerUp,         \* whether the replication peer accepts connections
    sweepAt,        \* when the cleanup loop's timer fires next
    protoSetter,    \* whether the runtime's objects have the __proto__ accessor
    lastUse,        \* history: keys in the order of their last successful GET or SET
    last            \* observation of the step just taken (command, reply, victims)

vars == <<cache, maxCacheItems, now, connCache, nextConnId, conns, outbound,
          role, peerUp, sweepAt, protoSetter, lastUse, last>>

-----------------------------------------------------------------------------
(* Bounds of the model *)

\* capacity of the connection registry in the model (1000 in the source)
MAX_CONNECTIONS == 2
\* initial item capacity in the model (10000 in the source)
DefaultMaxCacheItems == 2
\* connections accepted in the connection-centred specification
MaxConnIds == 3
\* number of small clock steps
MaxTicks == 2
\* passes of the cleanup loop in the specification of the timed loop
MaxSweeps == 2
\* clock steps by which the timer of the cleanup loop may fire late there
MaxLate == 2
\* chunks that may wait in a congested socket before the next command is read
MaxUnsent == 3

(* Program constants *)

\* milliseconds per clock unit, and the source's factor 1000 in clock units
ClockUnitMs == 10
PerSecond == 1000 \div ClockUnitMs

\* 30 days, in clock units
MAX_TTL_MS == 30 * 24 * 60 * 60 * PerSecond

\* the clock is observed every half second
TickStep == PerSecond \div 2

\* the pause of the cleanup loop between two passes, in clock units
CLEANUP_INTERVAL_MS == 1000 \div ClockUnitMs

\* the role of a node whose environment sets none
NODE_ROLE == "master"

(* Inputs *)

\* the first connection id
FirstConnId == 1

\* Keys are sequences of characters, so that the order of the properties of
\* the snapshot object is computed.
Keys == { <<"a">>, <<"b">>, <<"c">> }
\* where a command has no key
NoKey == <<>>

ProtoKey == <<"_", "_", "p", "r", "o", "t", "o", "_", "_">>
\* keys that are a name, an array index, and __proto__
ObjectKeys == { <<"b">>, <<"1">>, ProtoKey }
Values == {"x"}

\* Argument tokens are sequences of characters, so that parseInt is computed.
TtlTokens ==
    { <<"1">>, <<"0">>, <<"-", "1">>,
      <<"2", "5", "9", "2", "0", "0", "1">>,
      <<"z">> }
SizeTokens == { <<"1">>, <<"2">>, <<"0">>, <<"z">> }

\* tokens that are no integers, beside one that is
FractionTtlTokens == { <<"1">>, <<"1", ".", "5">>, <<"z">> }
FractionSizeTokens == { <<"1">>, <<"1", ".", "5">>, <<"0">>, <<"z">> }

-----------------------------------------------------------------------------
(* parseInt(string): optional sign, optional 0x prefix, longest digit prefix *)

DigitVal(ch) ==
    CASE ch = "0" -> 0 [] ch = "1" -> 1 [] ch = "2" -> 2 [] ch = "3" -> 3
      [] ch = "4" -> 4 [] ch = "5" -> 5 [] ch = "6" -> 6 [] ch = "7" -> 7
      [] ch = "8" -> 8 [] ch = "9" -> 9
      [] ch \in {"a", "A"} -> 10 [] ch \in {"b", "B"} -> 11
      [] ch \in {"c", "C"} -> 12 [] ch \in {"d", "D"} -> 13
      [] ch \in {"e", "E"} -> 14 [] ch \in {"f", "F"} -> 15
      [] OTHER -> 99

NaN == [nan |-> TRUE, n |-> 0]

RECURSIVE ParseDigits(_, _, _, _)
ParseDigits(s, radix, acc, seen) ==
    IF s # <<>> /\ DigitVal(Head(s)) < radix
    THEN ParseDigits(Tail(s), radix, acc * radix + DigitVal(Head(s)), TRUE)
    ELSE IF seen THEN [nan |-> FALSE, n |-> acc] ELSE NaN

parseInt(tok) ==
    LET neg == tok # <<>> /\ Head(tok) = "-"
        s1 == IF tok # <<>> /\ Head(tok) \in {"-", "+"} THEN Tail(tok) ELSE tok
        hex == Len(s1) >= 2 /\ s1[1] = "0" /\ s1[2] \in {"x", "X"}
        s2 == IF hex THEN Tail(Tail(s1)) ELSE s1
        r == ParseDigits(s2, IF hex THEN 16 ELSE 10, 0, FALSE)
    IN  IF r.nan THEN NaN
        ELSE [nan |-> FALSE, n |-> IF neg THEN 0 - r.n ELSE r.n]

isNaN(p) == p.nan

-----------------------------------------------------------------------------
(* LruCache: a map in recency order with a maximum size *)

LruKeys(m) == { m[i].k : i \in 1..Len(m) }

LruHas(m, k) == k \in LruKeys(m)

LruPeek(m, k) == (CHOOSE i \in 1..Len(m) : m[i].k = k)

LruWithout(m, k) == SelectSeq(m, LAMBDA e : e.k # k)

\* delete(key): removes the entry if present
LruDelete(m, k) == LruWithout(m, k)

\* the value stored under a key that is present
LruValue(m, k) == m[LruPeek(m, k)].v

\* get(key): a key that is present becomes most-recently-used
LruGet(m, k) ==
    IF LruHas(m, k)
    THEN Append(LruWithout(m, k), m[LruPeek(m, k)])
    ELSE m

\* entries dropped from the least-recently-used end until size <= max
RECURSIVE LruPrune(_, _, _)
LruPrune(m, max, gone) ==
    IF Len(m) > max /\ m # <<>>
    THEN LruPrune(Tail(m), max, Append(gone, Head(m)))
    ELSE [m |-> m, evicted |-> gone]

\* set(key, value): insert or overwrite as most-recently-used, then evict
LruSet(m, max, k, v) ==
    LruPrune(Append(LruWithout(m, k), [k |-> k, v |-> v]), max, <<>>)

\* resize(max): evict least-recently-used entries until size <= max
LruResize(m, max) == LruPrune(m, max, <<>>)

-----------------------------------------------------------------------------
(* Cache operations *)

\* (variant: a non-positive ttl is not capped but used as given)
setCacheZeroTtl(m, max, key, value, ttl_seconds, t) ==
    LET ttl == IF ttl_seconds < 0 \/ ttl_seconds > MAX_TTL_MS \div PerSecond
               THEN MAX_TTL_MS
               ELSE ttl_seconds * PerSecond
    IN  LruSet(m, max, key, [value |-> value, expireAt |-> t + ttl])

\* (variant: a key already stored is overwritten in place, keeping its rank)
setCacheInPlace(m, max, key, value, ttl_seconds, t) ==
    LET ttl == IF ttl_seconds <= 0 \/ ttl_seconds > MAX_TTL_MS \div PerSecond
               THEN MAX_TTL_MS
               ELSE ttl_seconds * PerSecond
        e == [k |-> key, v |-> [value |-> value, expireAt |-> t + ttl]]
    IN  IF LruHas(m, key)
        THEN [m |-> [i \in 1..Len(m) |-> IF m[i].k = key THEN e ELSE m[i]],
              evicted |-> <<>>]
        ELSE LruSet(m, max, key, e.v)

\* (variant: a full cache makes room before every insertion, overwrites included)
setCacheMakesRoom(m, max, key, value, ttl_seconds, t) ==
    LET ttl == IF ttl_seconds <= 0 \/ ttl_seconds > MAX_TTL_MS \div PerSecond
               THEN MAX_TTL_MS
               ELSE ttl_seconds * PerSecond
        room == IF Len(m) >= max
                THEN LruPrune(m, max - 1, <<>>)
                ELSE [m |-> m, evicted |-> <<>>]
        r == LruSet(room.m, max, key, [value |-> value, expireAt |-> t + ttl])
    IN  [m |-> r.m, evicted |-> room.evicted \o r.evicted]

\* setCache(key, value, ttl_seconds) at time t: the new cache and the victims
setCache(m, max, key, value, ttl_seconds, t) ==
    LET ttl == IF ttl_seconds <= 0 \/ ttl_seconds > MAX_TTL_MS \div PerSecond
               THEN MAX_TTL_MS
               ELSE ttl_seconds * PerSecond
        expireAt == t + ttl
    IN  LruSet(m, max, key, [value |-> value, expireAt |-> expireAt])

Null == [null |-> TRUE, s |-> ""]
Str(s) == [null |-> FALSE, s |-> s]

\* (variant: a lookup that does not count as a use)
getCacheNoTouch(m, key, t) ==
    IF ~LruHas(m, key)
    THEN [m |-> m, ret |-> Null]
    ELSE IF LruValue(m, key).expireAt <= t
         THEN [m |-> LruDelete(m, key), ret |-> Null]
         ELSE [m |-> m, ret |-> Str(LruValue(m, key).value)]

\* (variant: no expiry check on lookup)
getCacheNoExpiry(m, key, t) ==
    IF ~LruHas(m, key)
    THEN [m |-> m, ret |-> Null]
    ELSE [m |-> LruGet(m, key), ret |-> Str(LruValue(m, key).value)]

\* (variant: an expired entry is reported absent but left in the cache)
getCacheKeepsExpired(m, key, t) ==
    IF ~LruHas(m, key)
    THEN [m |-> m, ret |-> Null]
    ELSE IF LruValue(m, key).expireAt <= t
         THEN [m |-> LruGet(m, key), ret |-> Null]
         ELSE [m |-> LruGet(m, key), ret |-> Str(LruValue(m, key).value)]

\* getCache(key) at time t: the new cache and the returned value (or null)
getCache(m, key, t) ==
    IF ~LruHas(m, key)
    THEN [m |-> m, ret |-> Null]
    ELSE IF LruValue(m, key).expireAt <= t
         THEN [m |-> LruDelete(LruGet(m, key), key), ret |-> Null]
         ELSE [m |-> LruGet(m, key), ret |-> Str(LruValue(m, key).value)]

\* Math.round(x / 1000) for x >= 0 milliseconds, x in clock units
RoundSeconds(x) == (2 * x + PerSecond) \div (2 * PerSecond)

\* the key is an array index: the canonical decimal form of an integer from
\* 0 to 2^32 - 2 (compared digit by digit: the largest exceeds the model
\* checker's integers)
RECURSIVE DigitsLess(_, _)
DigitsLess(a, b) ==
    IF a = <<>> \/ b = <<>> THEN FALSE
    ELSE IF Head(a) = Head(b) THEN DigitsLess(Tail(a), Tail(b))
    ELSE DigitVal(Head(a)) < DigitVal(Head(b))

IndexLess(a, b) ==
    Len(a) < Len(b) \/ (Len(a) = Len(b) /\ DigitsLess(a, b))

MaxArrayIndex == <<"4", "2", "9", "4", "9", "6", "7", "2", "9", "4">>

IsArrayIndex(k) ==
    /\ k # <<>>
    /\ \A i \in 1..Len(k) : DigitVal(k[i]) < 10
    /\ k = <<"0">> \/ k[1] # "0"
    /\ ~IndexLess(MaxArrayIndex, k)

\* data[key] = {value, ttl} for every live entry in cache order (the scan)
RECURSIVE DumpScan(_, _)
DumpScan(m, t) ==
    IF m = <<>> THEN <<>>
    ELSE IF Head(m).v.expireAt > t
         THEN <<[key |-> Head(m).k, value |-> Head(m).v.value,
                 ttl |-> RoundSeconds(Head(m).v.expireAt - t)]>>
              \o DumpScan(Tail(m), t)
         ELSE DumpScan(Tail(m), t)

\* the properties of the plain object data as JSON.stringify lists them:
\* array indices in ascending order, then the other keys in the order they
\* were assigned; where objects have the __proto__ accessor, the assignment
\* data["__proto__"] = {...} sets the prototype and adds no property
DumpData(m, t, setter) ==
    LET scan == DumpScan(m, t)
        own == SelectSeq(scan, LAMBDA e : ~(setter /\ e.key = ProtoKey))
        indices == SelectSeq(own, LAMBDA e : IsArrayIndex(e.key))
        names == SelectSeq(own, LAMBDA e : ~IsArrayIndex(e.key))
    IN  SortSeq(indices, LAMBDA e, f : IndexLess(e.key, f.key)) \o names

\* (variant: expired entries are left out of the snapshot but not deleted)
dumpCacheKeepExpired(m, t, setter) == [data |-> DumpData(m, t, setter), m |-> m]

\* dumpCache, up to the file write: the snapshot data and the cache left behind
dumpCache(m, t, setter) ==
    [data |-> DumpData(m, t, setter),
     m |-> SelectSeq(m, LAMBDA e : e.v.expireAt > t)]

\* one pass of the cleanup loop at time t
cleanupPass(m, t) == SelectSeq(m, LAMBDA e : ~(e.v.expireAt <= t))

\* (variant: the limit is recorded but the cache is not resized)
limitNoResize(m, sizeItems) ==
    [max |-> sizeItems, r |-> [m |-> m, evicted |-> <<>>]]

\* (variant: the cache is cut down from the most-recently-used end)
limitDropNewest(m, sizeItems) ==
    [max |-> sizeItems,
     r |-> IF Len(m) > sizeItems
           THEN [m |-> SubSeq(m, 1, sizeItems),
                 evicted |-> SubSeq(m, sizeItems + 1, Len(m))]
           ELSE [m |-> m, evicted |-> <<>>]]

\* LIMIT: maxCacheItems = sizeItems; cache.resize(maxCacheItems)
limitResize(m, sizeItems) ==
    [max |-> sizeItems, r |-> LruResize(m, sizeItems)]

-----------------------------------------------------------------------------
(* Replies: the sequence of chunks written to the connection *)

sendOK == <<"+OK\r\n">>
sendErr(msg) == <<"-ERR " \o msg \o "\r\n">>
sendBulkString(r) ==
    IF r.null \/ r.s = ""
    THEN <<"$-1\r\n">>
    ELSE <<"$" \o ToString(Len(r.s)) \o "\r\n", r.s, "\r\n">>

-----------------------------------------------------------------------------
(* State *)

NoConn == FirstConnId - 1

\* what a step shows: the command and its arguments (key, value, the token of
\* the number and the number parsed from it), whether a SET replaced a stored
\* entry, the reply written, the keys evicted for capacity, the keys deleted
\* as expired, the connections on which close was called, the snapshot data
Obs(op, c, key, replaced, value, arg, num, reply, evicted, expired, closed, data) ==
    [op |-> op, conn |-> c, key |-> key, replaced |-> replaced, value |-> value,
     arg |-> arg, num |-> num, reply |-> reply, evicted |-> evicted,
     expired |-> expired, closed |-> closed, data |-> data]

\* the keys of m that m2 no longer holds, in m's order
Dropped(m, m2) ==
    LET d == SelectSeq(m, LAMBDA e : \A j \in 1..Len(m2) : m2[j].k # e.k)
    IN  [i \in 1..Len(d) |-> d[i].k]

\* the handler of a freshly accepted connection, waiting in conn.read;
\* unsent holds the chunks passed to conn.write whose write has not completed
NewConn == [pc |-> "reading", handle |-> "open", closes |-> 0, peer |-> "up",
            data |-> <<>>, congested |-> FALSE, unsent |-> <<>>]

\* the state once the module has loaded, on a node started with role r
InitRuntime(r, setter) ==
    /\ cache = <<>>
    /\ maxCacheItems = DefaultMaxCacheItems
    /\ now = 0
    /\ connCache = <<>>
    /\ nextConnId = FirstConnId
    /\ conns = <<>>
    /\ outbound = <<>>
    /\ role = r
    /\ peerUp = TRUE
    /\ sweepAt = CLEANUP_INTERVAL_MS
    /\ protoSetter = setter
    /\ lastUse = <<>>
    /\ last = Obs("INIT", NoConn, NoKey, FALSE, "", <<>>, NaN, <<>>, <<>>, <<>>, <<>>, <<>>)

\* the server runs on Deno, which deletes Object.prototype.__proto__ when it
\* starts: data["__proto__"] = {...} is an ordinary assignment there
InitNode(r) == InitRuntime(r, FALSE)

Init == InitNode(NODE_ROLE)

ConnIds == DOMAIN conns

\* an error that escaped a handler is an unhandled rejection: the process ends
Running == \A c \in ConnIds : conns[c].pc # "failed"

\* a command has arrived on c and its handler's conn.read returns it
Serving(c) ==
    /\ Running
    /\ c \in ConnIds
    /\ conns[c].pc = "reading"
    /\ conns[c].handle = "open"
    /\ conns[c].peer = "up"

KeysOf(m) == [i \in 1..Len(m) |-> m[i].k]

\* history of accesses: key k was just read or written successfully
Touch(h, k) == Append(SelectSeq(h, LAMBDA x : x # k), k)

\* the history keeps only the keys that are still stored
Stored(h, m) == SelectSeq(h, LAMBDA x : x \in LruKeys(m))

-----------------------------------------------------------------------------
(* The accept loop and the connection registry *)

\* (variant: a registry that is a plain map, never evicting)
registerUnbounded(m, id) ==
    [m |-> Append(LruWithout(m, id), [k |-> id, v |-> id]), evicted |-> <<>>]

\* connCache.set(id, conn): the registry and the entries evicted from it
register(m, id) == LruSet(m, MAX_CONNECTIONS, id, id)

\* (variant: evicted connections are dropped from the registry, not closed)
onEvictionNoClose(cs, ids) == cs

\* onEviction: close the evicted connections' handles
onEviction(cs, ids) ==
    [c \in DOMAIN cs |->
        IF c \in ids
        THEN [cs[c] EXCEPT !.handle = "closed", !.closes = @ + 1]
        ELSE cs[c]]

Accept(limit) ==
    /\ Running
    /\ nextConnId <= limit
    /\ LET id == nextConnId
           r == register(connCache, id)
           gone == KeysOf(r.evicted)
       IN  /\ nextConnId' = id + 1
           /\ connCache' = r.m
           /\ conns' = onEviction(Append(conns, NewConn),
                                { gone[i] : i \in 1..Len(gone) })
           /\ last' = Obs("ACCEPT", id, NoKey, FALSE, "", <<>>, NaN, <<>>, <<>>, <<>>, gone, <<>>)
    /\ UNCHANGED <<cache, maxCacheItems, now, outbound, role, protoSetter, peerUp, sweepAt, lastUse>>

\* the client closes its end of connection c
PeerClose(c) ==
    /\ c \in ConnIds
    /\ conns[c].peer = "up"
    /\ conns' = [conns EXCEPT ![c].peer = "gone"]
    /\ last' = Obs("PEERCLOSE", c, NoKey, FALSE, "", <<>>, NaN, <<>>, <<>>, <<>>, <<>>, <<>>)
    /\ UNCHANGED <<cache, maxCacheItems, now, connCache, nextConnId, outbound, role, protoSetter, peerUp, sweepAt,
                   lastUse>>

\* finally: connCache.delete(id); conn.close().  Whether closing a handle
\* that is already closed throws (out of the handler), and whether a write
\* still pending on the handle rejects with nobody awaiting it, depends on
\* the runtime.
Teardown(cs, c, throws) ==
    [cs EXCEPT ![c].pc = IF (cs[c].handle = "closed" \/ cs[c].unsent # <<>>)
                            /\ throws
                         THEN "failed" ELSE "ended",
               ![c].handle = "closed",
               ![c].closes = @ + 1,
               ![c].data = <<>>,
               ![c].unsent = <<>>]

\* (variant: the finally block closes the handle but leaves the id registered)
HandlerExitNoDeregister(c, throws) ==
    /\ Running
    /\ c \in ConnIds
    /\ conns[c].pc = "reading"
    /\ conns[c].peer = "gone" \/ conns[c].handle = "closed"
    /\ conns' = Teardown(conns, c, throws)
    /\ last' = Obs("EXIT", c, NoKey, FALSE, "", <<>>, NaN, <<>>, <<>>, <<>>, <<c>>,
                   <<>>)
    /\ UNCHANGED <<cache, maxCacheItems, now, connCache, nextConnId, outbound,
                   role, protoSetter, peerUp, sweepAt, lastUse>>

\* conn.read returns null (peer closed) or throws (handle closed): the
\* handler leaves its loop and runs the finally block
HandlerExit(c, throws) ==
    /\ Running
    /\ c \in ConnIds
    /\ conns[c].pc = "reading"
    /\ conns[c].peer = "gone" \/ conns[c].handle = "closed"
    /\ connCache' = LruDelete(connCache, c)
    /\ conns' = Teardown(conns, c, throws)
    /\ last' = Obs("EXIT", c, NoKey, FALSE, "", <<>>, NaN, <<>>, <<>>, <<>>, <<c>>, <<>>)
    /\ UNCHANGED <<cache, maxCacheItems, now, nextConnId, outbound, role, protoSetter, peerUp, sweepAt, lastUse>>

-----------------------------------------------------------------------------
(* The command loop of handleConnection, one action per command *)

ConnFrame ==
    UNCHANGED <<connCache, nextConnId, conns, outbound, role, protoSetter, peerUp, sweepAt>>

\* conn.write(chunk) for each chunk, none awaited: on a socket with room the
\* writes complete at once, on a congested one they stay pending
Write(cs, c, chunks) ==
    IF cs[c].congested /\ cs[c].handle = "open"
    THEN [cs EXCEPT ![c].unsent = @ \o chunks]
    ELSE cs

\* the handler writes its reply and goes back to conn.read
Reply(c, chunks) ==
    /\ conns' = Write(conns, c, chunks)
    /\ UNCHANGED <<connCache, nextConnId, outbound, role, protoSetter, peerUp, sweepAt>>

\* (variant: every accepted SET is forwarded to the peer, whatever the role)
CmdSetForwarding(c, key, value, ttlTok) ==
    /\ Serving(c)
    /\ LET ttl == parseInt(ttlTok) IN
         IF isNaN(ttl)
         THEN /\ last' = Obs("SET", c, NoKey, FALSE, "", ttlTok, ttl,
                             sendErr("invalid TTL"), <<>>, <<>>, <<>>, <<>>)
              /\ UNCHANGED <<cache, lastUse, outbound>>
         ELSE LET r == setCache(cache, maxCacheItems, key, value, ttl.n, now) IN
              /\ cache' = r.m
              /\ lastUse' = Stored(Touch(lastUse, key), r.m)
              /\ outbound' = Append(outbound, [cmd |-> "SET", key |-> key,
                                               value |-> value, ttl |-> ttl.n])
              /\ last' = Obs("SET", c, key, LruHas(cache, key), value, ttlTok,
                             ttl, sendOK, KeysOf(r.evicted), <<>>, <<>>, <<>>)
    /\ UNCHANGED <<maxCacheItems, now, connCache, nextConnId, conns, role, protoSetter,
                   peerUp, sweepAt>>

\* (variant: the SET waits for the peer, and an unreachable peer is an error
\* that leaves the command loop)
CmdSetAwaitingPeer(c, key, value, ttlTok) ==
    /\ Serving(c)
    /\ LET ttl == parseInt(ttlTok) IN
         IF isNaN(ttl)
         THEN /\ last' = Obs("SET", c, NoKey, FALSE, "", ttlTok, ttl,
                             sendErr("invalid TTL"), <<>>, <<>>, <<>>, <<>>)
              /\ UNCHANGED <<cache, lastUse, connCache, conns>>
         ELSE LET r == setCache(cache, maxCacheItems, key, value, ttl.n, now) IN
              /\ cache' = r.m
              /\ lastUse' = Stored(Touch(lastUse, key), r.m)
              /\ IF peerUp
                 THEN /\ UNCHANGED <<connCache, conns>>
                      /\ last' = Obs("SET", c, key, LruHas(cache, key), value,
                                     ttlTok, ttl, sendOK, KeysOf(r.evicted),
                                     <<>>, <<>>, <<>>)
                 ELSE /\ connCache' = LruDelete(connCache, c)
                      /\ conns' = Teardown(conns, c, FALSE)
                      /\ last' = Obs("SET", c, key, LruHas(cache, key), value,
                                     ttlTok, ttl, <<>>, KeysOf(r.evicted),
                                     <<>>, <<c>>, <<>>)
    /\ UNCHANGED <<maxCacheItems, now, nextConnId, outbound, role, protoSetter, peerUp,
                   sweepAt>>

\* SET key value ttl
CmdSet(c, key, value, ttlTok) ==
    /\ Serving(c)
    /\ LET ttl == parseInt(ttlTok) IN
         IF isNaN(ttl)
         THEN /\ last' = Obs("SET", c, NoKey, FALSE, "", ttlTok, ttl, sendErr("invalid TTL"),
                             <<>>, <<>>, <<>>, <<>>)
              /\ UNCHANGED <<cache, lastUse>>
         ELSE LET r == setCache(cache, maxCacheItems, key, value, ttl.n, now) IN
              /\ cache' = r.m
              /\ lastUse' = Stored(Touch(lastUse, key), r.m)
              /\ last' = Obs("SET", c, key, LruHas(cache, key), value, ttlTok, ttl, sendOK,
                             KeysOf(r.evicted), <<>>, <<>>, <<>>)
    /\ UNCHANGED <<maxCacheItems, now>>
    /\ Reply(c, last'.reply)

\* SET with any other number of parts than four
CmdSetArity(c) ==
    /\ Serving(c)
    /\ last' = Obs("SET", c, NoKey, FALSE, "", <<>>, NaN, sendErr("SET requires key, value, and ttl"),
                   <<>>, <<>>, <<>>, <<>>)
    /\ UNCHANGED <<cache, lastUse, maxCacheItems, now>>
    /\ Reply(c, last'.reply)

\* GET key
CmdGet(c, key) ==
    /\ Serving(c)
    /\ LET r == getCache(cache, key, now) IN
         /\ cache' = r.m
         /\ lastUse' = Stored(IF r.ret.null THEN lastUse ELSE Touch(lastUse, key), r.m)
         /\ last' = Obs("GET", c, key, FALSE, r.ret.s, <<>>, NaN, sendBulkString(r.ret),
                        <<>>, Dropped(cache, r.m), <<>>, <<>>)
    /\ UNCHANGED <<maxCacheItems, now>>
    /\ Reply(c, last'.reply)

\* GET with any other number of parts than two
CmdGetArity(c) ==
    /\ Serving(c)
    /\ last' = Obs("GET", c, NoKey, FALSE, "", <<>>, NaN, sendErr("GET requires a key"),
                   <<>>, <<>>, <<>>, <<>>)
    /\ UNCHANGED <<cache, lastUse, maxCacheItems, now>>
    /\ Reply(c, last'.reply)

\* DUMP [filename]: the scan of dumpCache, up to the awaited file write
CmdDump(c) ==
    /\ Serving(c)
    /\ LET r == dumpCache(cache, now, protoSetter) IN
         /\ cache' = r.m
         /\ conns' = [conns EXCEPT ![c].pc = "writing", ![c].data = r.data]
         /\ lastUse' = Stored(lastUse, r.m)
         /\ last' = Obs("DUMP", c, NoKey, FALSE, "", <<>>, NaN, <<>>, <<>>, Dropped(cache, r.m),
                        <<>>, r.data)
    /\ UNCHANGED <<maxCacheItems, now, connCache, nextConnId, outbound, role, protoSetter, peerUp, sweepAt>>

\* Deno.writeTextFile completes.  On success the handler writes +OK and goes
\* back to conn.read; on a handle closed in the meantime that write, which
\* nobody awaits, reaches no one, and the handler still goes back to
\* conn.read (where HandlerExit finds the closed handle).  On failure the
\* error leaves the loop: catch and finally run at once.
DumpWritten(c, ok, throws) ==
    /\ Running
    /\ c \in ConnIds
    /\ conns[c].pc = "writing"
    /\ IF ok
       THEN /\ conns' = Write([conns EXCEPT ![c].pc = "reading", ![c].data = <<>>],
                             c, sendOK)
            /\ connCache' = connCache
            /\ last' = Obs("WRITE", c, NoKey, FALSE, "", <<>>, NaN,
                           IF conns[c].handle = "open" THEN sendOK ELSE <<>>,
                           <<>>, <<>>, <<>>, conns[c].data)
       ELSE /\ conns' = Teardown(conns, c, throws)
            /\ connCache' = LruDelete(connCache, c)
            /\ last' = Obs("WRITEFAIL", c, NoKey, FALSE, "", <<>>, NaN, <<>>, <<>>,
                           <<>>, <<c>>, <<>>)
    /\ UNCHANGED <<cache, lastUse, maxCacheItems, now, nextConnId, outbound,
                   role, protoSetter, peerUp, sweepAt>>

\* LIMIT size
CmdLimit(c, sizeTok) ==
    /\ Serving(c)
    /\ LET sizeItems == parseInt(sizeTok) IN
         IF isNaN(sizeItems) \/ sizeItems.n <= 0
         THEN /\ last' = Obs("LIMIT", c, NoKey, FALSE, "", sizeTok, sizeItems,
                             sendErr("invalid size (must be a positive integer)"),
                             <<>>, <<>>, <<>>, <<>>)
              /\ UNCHANGED <<cache, maxCacheItems, lastUse>>
         ELSE LET lim == limitResize(cache, sizeItems.n)
                  r == lim.r
              IN
              /\ maxCacheItems' = lim.max
              /\ cache' = r.m
              /\ lastUse' = Stored(lastUse, r.m)
              /\ last' = Obs("LIMIT", c, NoKey, FALSE, "", sizeTok, sizeItems, sendOK,
                             KeysOf(r.evicted), <<>>, <<>>, <<>>)
    /\ now' = now
    /\ Reply(c, last'.reply)

\* LIMIT with any other number of parts than two
CmdLimitArity(c) ==
    /\ Serving(c)
    /\ last' = Obs("LIMIT", c, NoKey, FALSE, "", <<>>, NaN,
                   sendErr("LIMIT requires size in number of items"),
                   <<>>, <<>>, <<>>, <<>>)
    /\ UNCHANGED <<cache, lastUse, maxCacheItems, now>>
    /\ Reply(c, last'.reply)

\* any other first token
CmdUnknown(c) ==
    /\ Serving(c)
    /\ last' = Obs("OTHER", c, NoKey, FALSE, "", <<>>, NaN, sendErr("unknown command"),
                   <<>>, <<>>, <<>>, <<>>)
    /\ UNCHANGED <<cache, lastUse, maxCacheItems, now>>
    /\ Reply(c, last'.reply)

-----------------------------------------------------------------------------
(* The socket of a connection *)

\* the client stops reading: the socket's send buffer is full
Congest(c) ==
    /\ c \in ConnIds
    /\ conns[c].handle = "open"
    /\ conns[c].peer = "up"
    /\ ~conns[c].congested
    /\ conns' = [conns EXCEPT ![c].congested = TRUE]
    /\ last' = Obs("CONGEST", c, NoKey, FALSE, "", <<>>, NaN, <<>>, <<>>, <<>>,
                   <<>>, <<>>)
    /\ UNCHANGED <<cache, maxCacheItems, now, connCache, nextConnId, outbound,
                   role, protoSetter, peerUp, sweepAt, lastUse>>

\* the client reads again: the pending writes complete, in the order issued
Drain(c) ==
    /\ c \in ConnIds
    /\ conns[c].handle = "open"
    /\ conns[c].congested
    /\ conns' = [conns EXCEPT ![c].congested = FALSE, ![c].unsent = <<>>]
    /\ last' = Obs("DRAIN", c, NoKey, FALSE, "", <<>>, NaN, conns[c].unsent, <<>>,
                   <<>>, <<>>, <<>>)
    /\ UNCHANGED <<cache, maxCacheItems, now, connCache, nextConnId, outbound,
                   role, protoSetter, peerUp, sweepAt, lastUse>>

-----------------------------------------------------------------------------
(* The cleanup loop and the clock *)

\* the timer of the cleanup loop has fired: one pass, then the next pause
\* starts.  A timer may fire late, never early.
Sweep ==
    /\ Running
    /\ now >= sweepAt
    /\ sweepAt' = now + CLEANUP_INTERVAL_MS
    /\ cache' = cleanupPass(cache, now)
    /\ lastUse' = Stored(lastUse, cache')
    /\ last' = Obs("SWEEP", NoConn, NoKey, FALSE, "", <<>>, NaN, <<>>, <<>>,
                   Dropped(cache, cache'), <<>>, <<>>)
    /\ UNCHANGED <<maxCacheItems, now, connCache, nextConnId, conns, outbound,
                   role, protoSetter, peerUp>>

\* time passes
Tick ==
    /\ now \div TickStep < MaxTicks
    /\ now' = now + TickStep
    /\ last' = Obs("TICK", NoConn, NoKey, FALSE, "", <<>>, NaN, <<>>, <<>>, <<>>, <<>>, <<>>)
    /\ UNCHANGED <<cache, maxCacheItems, lastUse>>
    /\ ConnFrame

\* time passes while the cleanup loop sleeps or its timer is overdue:
\* setTimeout fires no earlier than sweepAt and, here, at most MaxLate clock
\* steps later; the clock stops once MaxSweeps intervals have been armed
TickTimer ==
    /\ now - sweepAt < MaxLate * TickStep
    /\ sweepAt <= MaxSweeps * CLEANUP_INTERVAL_MS
    /\ now' = now + TickStep
    /\ last' = Obs("TICK", NoConn, NoKey, FALSE, "", <<>>, NaN, <<>>, <<>>, <<>>,
                   <<>>, <<>>)
    /\ UNCHANGED <<cache, maxCacheItems, lastUse>>
    /\ ConnFrame

-----------------------------------------------------------------------------
(* Specifications *)

Command(c, keys, values, ttlToks, sizeToks) ==
    \/ \E key \in keys, value \in values, tok \in ttlToks :
           CmdSet(c, key, value, tok)
    \/ CmdSetArity(c)
    \/ \E key \in keys : CmdGet(c, key)
    \/ CmdGetArity(c)
    \/ CmdDump(c)
    \/ \E tok \in sizeToks : CmdLimit(c, tok)
    \/ CmdLimitArity(c)
    \/ CmdUnknown(c)

\* the cache engine driven through one client session
Next ==
    \/ Accept(FirstConnId)
    \/ \E c \in ConnIds : Command(c, Keys, Values, TtlTokens, SizeTokens)
    \/ \E c \in ConnIds, ok \in BOOLEAN : DumpWritten(c, ok, TRUE)
    \/ Sweep
    \/ Tick

Spec == Init /\ [][Next]_vars

\* the connection registry under many clients, each issuing a few commands
NextConn ==
    \/ Accept(MaxConnIds)
    \/ \E c \in ConnIds : PeerClose(c)
    \/ \E c \in ConnIds, throws \in BOOLEAN : HandlerExit(c, throws)
    \/ \E c \in ConnIds : Command(c, { <<"a">> }, {"x"}, {<<"1">>}, {<<"1">>})
    \/ \E c \in ConnIds, ok \in BOOLEAN, throws \in BOOLEAN :
           DumpWritten(c, ok, throws)

SpecConn == Init /\ [][NextConn]_vars

\* one client session beside the cleanup loop, whose timer fires on time; the
\* loop is an async function of its own, resumed by the event loop whenever
\* its timer has fired, and the handlers never block the event loop
NextSweep ==
    \/ Accept(FirstConnId)
    \/ \E c \in ConnIds : Command(c, { <<"a">>, <<"b">> }, {"x"}, {<<"1">>, <<"0">>}, {<<"1">>})
    \/ \E c \in ConnIds, ok \in BOOLEAN : DumpWritten(c, ok, TRUE)
    \/ Sweep
    \/ TickTimer

SpecSweep ==
    Init /\ [][NextSweep]_vars /\ WF_vars(Sweep) /\ WF_vars(TickTimer)

\* one client session sending well-formed and malformed commands
NextProto ==
    \/ Accept(FirstConnId)
    \/ \E c \in ConnIds :
           Command(c, { <<"a">>, <<"b">> }, {"x"}, FractionTtlTokens, FractionSizeTokens)
    \/ \E c \in ConnIds, ok \in BOOLEAN : DumpWritten(c, ok, TRUE)

SpecProto == Init /\ [][NextProto]_vars

\* one pipelining client whose socket may be congested
NextWire ==
    \/ Accept(FirstConnId)
    \/ \E c \in ConnIds :
           /\ Len(conns[c].unsent) < MaxUnsent
           /\ Command(c, { <<"a">> }, {"x"}, {<<"1">>}, {<<"1">>})
    \/ \E c \in ConnIds, ok \in BOOLEAN, throws \in BOOLEAN :
           DumpWritten(c, ok, throws)
    \/ \E c \in ConnIds : Congest(c)
    \/ \E c \in ConnIds : Drain(c)

SpecWire == Init /\ [][NextWire]_vars

\* one client session writing two values under two keys
NextValues ==
    \/ Accept(FirstConnId)
    \/ \E c \in ConnIds :
           Command(c, { <<"a">>, <<"b">> }, {"x", "y"}, {<<"1">>, <<"0">>}, {<<"1">>, <<"2">>})
    \/ \E c \in ConnIds, ok \in BOOLEAN : DumpWritten(c, ok, TRUE)
    \/ Sweep
    \/ Tick

SpecValues == Init /\ [][NextValues]_vars

\* one client session whose keys are a name, an array index and __proto__,
\* all stored as properties of the snapshot object
NextDump ==
    \/ Accept(FirstConnId)
    \/ \E c \in ConnIds :
           Command(c, ObjectKeys, {"x"}, {<<"1">>, <<"0">>}, {<<"2">>})
    \/ \E c \in ConnIds, ok \in BOOLEAN : DumpWritten(c, ok, TRUE)
    \/ Sweep
    \/ Tick

SpecDump == Init /\ [][NextDump]_vars

\* the replication peer becomes unreachable, or reachable again
PeerFlip ==
    /\ peerUp' = ~peerUp
    /\ last' = Obs("PEER", NoConn, NoKey, FALSE, "", <<>>, NaN, <<>>, <<>>, <<>>,
                   <<>>, <<>>)
    /\ UNCHANGED <<cache, maxCacheItems, now, connCache, nextConnId, conns,
                   outbound, role, protoSetter, sweepAt, lastUse>>

Roles == {"master", "slave"}

\* a node of either role, its peer coming and going
InitRepl == \E r \in Roles : InitNode(r)

NextRepl ==
    \/ Accept(FirstConnId)
    \/ \E c \in ConnIds : Command(c, { <<"a">>, <<"b">> }, {"x"}, {<<"1">>, <<"z">>}, {<<"1">>})
    \/ \E c \in ConnIds, ok \in BOOLEAN : DumpWritten(c, ok, TRUE)
    \/ PeerFlip

SpecRepl == InitRepl /\ [][NextRepl]_vars

-----------------------------------------------------------------------------
(* Properties *)

NullBulk == <<"$-1\r\n">>
Bulk(s) == <<"$" \o ToString(Len(s)) \o "\r\n", s, "\r\n">>
Range(q) == { q[i] : i \in 1..Len(q) }
Live(m, t) == SelectSeq(m, LAMBDA e : e.v.expireAt > t)
MaxTtlSeconds == 30 * 24 * 60 * 60

\* the step just taken was an accepted SET / a well-formed GET
SetDone(l) == l.op = "SET" /\ l.reply = sendOK
GetDone(l) == l.op = "GET" /\ l.key # NoKey
GetHit(l) == GetDone(l) /\ l.reply # NullBulk

\* C1: in every reachable state the cache holds at most maxCacheItems entries.
C1_StoreWithinCapacity == Len(cache) <= maxCacheItems

C1_Witness ==
    /\ last.op = "LIMIT"
    /\ last.evicted # <<>>
    /\ Len(cache) = maxCacheItems

\* C2: a SET of a key that is not stored, issued when the store holds exactly
\* maxCacheItems entries, removes exactly one entry, the one whose last
\* successful GET or SET is the oldest; the others and the new key are stored.
C2_EvictsLeastRecentlyUsed ==
    [][ (SetDone(last') /\ Len(cache) = maxCacheItems
            /\ ~LruHas(cache, last'.key))
        => /\ last'.evicted = <<Head(lastUse)>>
           /\ LruKeys(cache') =
                  (LruKeys(cache) \ {Head(lastUse)}) \cup {last'.key}
           /\ \A k \in LruKeys(cache) \ {Head(lastUse)} :
                  LruValue(cache', k) = LruValue(cache, k) ]_vars

C2_Witness ==
    /\ SetDone(last)
    /\ Len(last.evicted) = 1
    /\ Len(cache) = maxCacheItems
    /\ Len(cache) >= 2

\* C3: a GET that returns a value makes its key the most-recently-used one
\* and leaves the order of the others alone; a SET of a new key at capacity
\* n >= 2 right after it keeps that key and evicts the oldest of the others.
C3_GetRefreshesRecency ==
    [][ /\ GetHit(last') =>
             /\ KeysOf(cache') = Touch(KeysOf(cache), last'.key)
             /\ \A k \in LruKeys(cache) :
                    LruValue(cache', k) = LruValue(cache, k)
        /\ (GetHit(last) /\ SetDone(last') /\ Len(cache) = maxCacheItems
               /\ Len(cache) >= 2 /\ ~LruHas(cache, last'.key))
           => /\ LruHas(cache', last.key)
              /\ last'.evicted = <<cache[1].k>>
              /\ cache[1].k # last.key ]_vars

\* a GET has moved a key past an entry that was written after it
C3_Witness ==
    /\ GetHit(last)
    /\ Len(cache) >= 2
    /\ cache[Len(cache)].k = last.key
    /\ \E i \in 1..(Len(cache) - 1) :
          /\ cache[i].v.expireAt > cache[Len(cache)].v.expireAt
          /\ cache[i].v.expireAt < MAX_TTL_MS

\* C4: a key stored by SET with 0 < ttl <= 30 days expires ttl seconds later:
\* the entry keeps its value and expiry until it is overwritten, evicted or
\* expired, and a GET returns the stored value strictly before the expiry
\* and absent from the expiry on, whether or not the sweep has run.
C4_TtlExpiry ==
    [][ /\ (SetDone(last') /\ last'.num.n > 0 /\ last'.num.n <= MaxTtlSeconds)
           => /\ LruHas(cache', last'.key)
              /\ LruValue(cache', last'.key) =
                    [value |-> last'.value,
                     expireAt |-> now + last'.num.n * PerSecond]
        /\ \A k \in LruKeys(cache) :
              /\ (LruHas(cache', k) /\ ~(SetDone(last') /\ last'.key = k))
                 => LruValue(cache', k) = LruValue(cache, k)
              /\ (~LruHas(cache', k) /\ k \notin Range(last'.evicted))
                 => LruValue(cache, k).expireAt <= now
        /\ GetDone(last') =>
              last'.reply =
                 IF LruHas(cache, last'.key)
                    /\ now < LruValue(cache, last'.key).expireAt
                 THEN Bulk(LruValue(cache, last'.key).value)
                 ELSE NullBulk ]_vars

\* a GET found its key stored but expired, before any sweep removed it
C4_Witness ==
    /\ GetDone(last)
    /\ last.expired = <<last.key>>
    /\ last.reply = NullBulk

\* C5: an accepted SET with ttl t stores expireAt = now + 30 days when t <= 0
\* or t > 30 days (in seconds), and expireAt = now + t seconds otherwise.
C5_TtlClamp ==
    [][ SetDone(last') =>
          /\ LruHas(cache', last'.key)
          /\ LruValue(cache', last'.key).expireAt =
                now + (IF last'.num.n <= 0 \/ last'.num.n > MaxTtlSeconds
                       THEN MaxTtlSeconds * PerSecond
                       ELSE last'.num.n * PerSecond) ]_vars

C5_Witness ==
    /\ SetDone(last)
    /\ last.num.n <= 0
    /\ LruValue(cache, last.key).expireAt = now + MaxTtlSeconds * PerSecond

\* C6: LIMIT m with 0 < m < size leaves, within the same step, exactly the m
\* most-recently-used entries, unchanged; the size - m least-recently-used
\* ones are the entries removed.
C6_LimitShrinks ==
    [][ (last'.op = "LIMIT" /\ last'.reply = sendOK
            /\ last'.num.n < Len(cache))
        => LET m == last'.num.n
               size == Len(cache)
           IN  /\ Len(cache') = m
               /\ maxCacheItems' = m
               /\ KeysOf(cache') = SubSeq(lastUse, size - m + 1, size)
               /\ last'.evicted = SubSeq(lastUse, 1, size - m)
               /\ \A k \in LruKeys(cache') :
                      LruValue(cache', k) = LruValue(cache, k) ]_vars

C6_Witness ==
    /\ last.op = "LIMIT"
    /\ last.reply = sendOK
    /\ Len(last.evicted) >= 1
    /\ Len(cache) = last.num.n

\* the key/value pairs of a snapshot, and of a cache
DataPairs(d) == { <<d[i].key, d[i].value>> : i \in 1..Len(d) }
CachePairs(m) == { <<m[i].k, m[i].v.value>> : i \in 1..Len(m) }

\* C7: DUMP snapshots exactly the entries that expire after the time of the
\* dump, each once, deletes the others, and leaves the value, expiry and
\* relative recency order of the entries it keeps unchanged.
C7_DumpFrame ==
    [][ last'.op = "DUMP" =>
          /\ cache' = Live(cache, now)
          /\ KeysOf(cache') =
                SelectSeq(lastUse, LAMBDA k : k \in LruKeys(Live(cache, now)))
          /\ Len(last'.data) = Len(cache')
          /\ DataPairs(last'.data) = CachePairs(cache')
          /\ Range(last'.expired) = LruKeys(cache) \ LruKeys(cache') ]_vars

\* a DUMP deleted an expired entry and wrote the live one, stored under the
\* key __proto__
C7_Witness ==
    /\ last.op = "DUMP"
    /\ last.expired # <<>>
    /\ \E i \in 1..Len(last.data) : last.data[i].key = ProtoKey
    /\ LruHas(cache, ProtoKey)
    /\ Len(cache) = Len(last.data)

\* C8: in every reachable state the connection registry holds at most
\* MAX_CONNECTIONS entries.
C8_RegistryWithinCapacity == Len(connCache) <= MAX_CONNECTIONS

C8_Witness ==
    /\ last.op = "ACCEPT"
    /\ last.closed # <<>>
    /\ Len(connCache) = MAX_CONNECTIONS

\* the smallest id in the registry
Oldest(m) == CHOOSE v \in LruKeys(m) : \A w \in LruKeys(m) : v <= w

\* C9: an accept while the registry is full removes exactly one connection
\* from the registry and closes its handle, the one with the smallest id of
\* those registered; no other connection is closed or removed.
C9_AcceptEvictsOldest ==
    [][ (last'.op = "ACCEPT" /\ Len(connCache) = MAX_CONNECTIONS)
        => LET victim == Oldest(connCache) IN
           /\ LruKeys(connCache') =
                 (LruKeys(connCache) \ {victim}) \cup {last'.conn}
           /\ last'.closed = <<victim>>
           /\ conns[victim].handle = "open"
           /\ conns'[victim].handle = "closed"
           /\ conns'[victim].closes = conns[victim].closes + 1
           /\ \A c \in DOMAIN conns \ {victim} : conns'[c] = conns[c] ]_vars

C9_Witness ==
    /\ last.op = "ACCEPT"
    /\ last.closed = <<1>>
    /\ conns[1].handle = "closed"
    /\ conns[1].closes = 1
    /\ Len(connCache) = MAX_CONNECTIONS

\* C10: on a master, every accepted SET sends one SET with the same key,
\* value and ttl to the peer.
C10_SetReplicated ==
    (SetDone(last) /\ NODE_ROLE = "master")
    => /\ outbound # <<>>
       /\ outbound[Len(outbound)] =
             [cmd |-> "SET", key |-> last.key, value |-> last.value,
              ttl |-> last.num.n]

\* C11: a node whose role is slave never sends anything to a replication
\* peer, whatever commands it serves.
C11_SlaveNeverReplicates == role = "slave" => outbound = <<>>

\* a slave has accepted a SET while its peer was reachable
C11_Witness ==
    /\ role = "slave"
    /\ peerUp
    /\ SetDone(last)
    /\ LruHas(cache, last.key)

\* a SET with four parts whose ttl parses
SetParsed(l) == l.op = "SET" /\ l.arg # <<>> /\ ~isNaN(l.num)

\* C12: whether or not the peer can be reached, a SET whose ttl parses stores
\* its entry, is answered +OK, and leaves its connection open and registered.
C12_SetOutcomeIgnoresPeer ==
    [][ SetParsed(last') =>
          /\ last'.reply = sendOK
          /\ LruHas(cache', last'.key)
          /\ LruValue(cache', last'.key).value = last'.value
          /\ conns'[last'.conn] = conns[last'.conn]
          /\ conns'[last'.conn].pc = "reading"
          /\ conns'[last'.conn].handle = "open"
          /\ connCache' = connCache
          /\ LruHas(connCache', last'.conn) ]_vars

\* a master has accepted a SET while its peer could not be reached
C12_Witness ==
    /\ role = "master"
    /\ ~peerUp
    /\ SetDone(last)
    /\ LruHas(cache, last.key)
    /\ conns[last.conn].pc = "reading"
    /\ conns[last.conn].handle = "open"

\* key k is stored although its expiry has passed
Expired(k) == LruHas(cache, k) /\ LruValue(cache, k).expireAt <= now

\* an entry whose expiry has passed is eventually gone from the store, read
\* or not (the loop is resumed: weak fairness of Sweep)
SweepEventually == \A k \in Keys : Expired(k) ~> ~Expired(k)

\* no entry is stored more than one cleanup interval past its expiry
SweepWithinInterval ==
    \A i \in 1..Len(cache) : now - cache[i].v.expireAt <= CLEANUP_INTERVAL_MS

\* C13: with the cleanup loop resumed whenever its timer has fired, an entry
\* whose expiry has passed is eventually gone from the store, read or not,
\* and no entry is ever stored more than one cleanup interval past its expiry.
C13_SweepPurges == SweepEventually /\ []SweepWithinInterval

\* the token is an integer literal: an optional sign, then decimal digits
IsInteger(tok) ==
    LET body == IF tok # <<>> /\ Head(tok) \in {"-", "+"} THEN Tail(tok) ELSE tok
    IN  /\ body # <<>>
        /\ \A i \in 1..Len(body) : DigitVal(body[i]) < 10

ErrReplies ==
    { sendErr(msg) : msg \in
        { "invalid TTL", "SET requires key, value, and ttl",
          "GET requires a key", "invalid size (must be a positive integer)",
          "LIMIT requires size in number of items", "unknown command" } }

\* the command just handled was an unknown one, had the wrong number of
\* parts, or had a ttl or size that is no integer, or a size that is not positive
ProtocolError(l) ==
    \/ l.op = "OTHER"
    \/ l.op \in {"SET", "LIMIT"} /\ l.arg = <<>>
    \/ l.op = "GET" /\ l.key = NoKey
    \/ l.op = "SET" /\ l.arg # <<>> /\ ~IsInteger(l.arg)
    \/ l.op = "LIMIT" /\ l.arg # <<>> /\ (~IsInteger(l.arg) \/ l.num.n <= 0)

\* C14: every protocol error is answered with an error reply and changes
\* neither the connection, nor the registry, nor the cache, its recency
\* order or its capacity.
C14_ProtocolErrorsRejected ==
    [][ ProtocolError(last') =>
          /\ last'.reply \in ErrReplies
          /\ conns' = conns
          /\ connCache' = connCache
          /\ cache' = cache
          /\ lastUse' = lastUse
          /\ maxCacheItems' = maxCacheItems ]_vars

\* C15: when the write of the snapshot file fails, the client is sent an
\* error reply, its connection stays open and registered, and the cache is
\* left as the scan of the dump left it.
C15_DumpFailureReported ==
    [][ last'.op = "WRITEFAIL" =>
          /\ last'.reply # <<>>
          /\ last'.reply # sendOK
          /\ conns'[last'.conn].pc = "reading"
          /\ conns'[last'.conn].handle = "open"
          /\ LruHas(connCache', last'.conn)
          /\ cache' = cache ]_vars

CommandOps == {"SET", "GET", "DUMP", "LIMIT", "OTHER"}

\* C16: when a command is read from a connection, every write of the replies
\* to the commands read before it on that connection has completed.
C16_ReplyWrittenBeforeNextRead ==
    [][ last'.op \in CommandOps => conns[last'.conn].unsent = <<>> ]_vars

\* C17: no error raised while a command or a connection is handled escapes
\* its handler.
C17_NoErrorEscapes == \A c \in ConnIds : conns[c].pc # "failed"

\* C18: close is called at most once on the handle of a connection.
C18_ClosedAtMostOnce == \A c \in ConnIds : conns[c].closes <= 1

\* C19: an accepted SET of a key that is stored replaces its value and
\* expiry, makes it the most-recently-used key, evicts nothing (even at
\* capacity), and leaves the stored keys and every other entry unchanged.
C19_OverwriteKeepsKeys ==
    [][ (SetDone(last') /\ LruHas(cache, last'.key)) =>
          /\ LruKeys(cache') = LruKeys(cache)
          /\ last'.evicted = <<>>
          /\ LruValue(cache', last'.key) =
                [value |-> last'.value,
                 expireAt |->
                    now + (IF last'.num.n <= 0 \/ last'.num.n > MaxTtlSeconds
                           THEN MaxTtlSeconds * PerSecond
                           ELSE last'.num.n * PerSecond)]
          /\ KeysOf(cache') = Touch(KeysOf(cache), last'.key)
          /\ \A k \in LruKeys(cache) \ {last'.key} :
                 LruValue(cache', k) = LruValue(cache, k) ]_vars

\* a stored key was overwritten, with a new value, in a full cache
C19_Witness ==
    /\ SetDone(last)
    /\ last.replaced
    /\ last.evicted = <<>>
    /\ Len(cache) = maxCacheItems
    /\ Len(cache) >= 2
    /\ cache[Len(cache)].k = last.key
    /\ cache[Len(cache)].v.value = "y"

\* C20: a GET of a key stored with its expiry passed deletes that entry, so
\* that the store holds one entry less and the next SET evicts nothing, and
\* the reply is the null bulk; a GET of a key that is not stored replies the
\* null bulk and changes nothing.
C20_GetDeletesExpired ==
    [][ /\ GetDone(last') =>
             /\ (LruHas(cache, last'.key)
                    /\ LruValue(cache, last'.key).expireAt <= now)
                 => /\ cache' = LruWithout(cache, last'.key)
                    /\ Len(cache') = Len(cache) - 1
                    /\ last'.reply = NullBulk
             /\ ~LruHas(cache, last'.key)
                 => /\ cache' = cache
                    /\ lastUse' = lastUse
                    /\ maxCacheItems' = maxCacheItems
                    /\ conns' = conns
                    /\ last'.reply = NullBulk
        /\ (GetDone(last) /\ last.expired = <<last.key>> /\ SetDone(last'))
           => last'.evicted = <<>> ]_vars

\* a GET has deleted an expired entry from a full cache, leaving a live one
C20_Witness ==
    /\ GetDone(last)
    /\ last.expired = <<last.key>>
    /\ ~LruHas(cache, last.key)
    /\ Len(cache) = maxCacheItems - 1
    /\ Len(cache) >= 1
    /\ \A i \in 1..Len(cache) : cache[i].v.expireAt > now

\* the handler of connection c has run its finally block
Ended(c) == conns[c].pc \in {"ended", "failed"}

\* C21: a connection whose handler has ended is not in the registry; the end
\* of a handler removes its own id and nothing else from the registry, which
\* is left as it was when the id was no longer there, and touches no other
\* connection.
C21_EndedIsDeregistered ==
    /\ [](\A c \in ConnIds : Ended(c) => ~LruHas(connCache, c))
    /\ [][ last'.op \in {"EXIT", "WRITEFAIL"} =>
            /\ conns'[last'.conn].pc \in {"ended", "failed"}
            /\ connCache' = LruWithout(connCache, last'.conn)
            /\ ~LruHas(connCache, last'.conn) => connCache' = connCache
            /\ \A d \in ConnIds \ {last'.conn} : conns'[d] = conns[d] ]_vars

\* the handler of a connection that eviction had already removed from the
\* registry has ended, beside connections that are still registered
C21_Witness ==
    /\ last.op = "EXIT"
    /\ Ended(last.conn)
    /\ conns[last.conn].closes = 2
    /\ ~LruHas(connCache, last.conn)
    /\ Len(connCache) = MAX_CONNECTIONS

\* C22: a LIMIT whose size is no integer or is not positive is answered with
\* an error reply and changes neither the capacity nor the stored entries;
\* a LIMIT with a positive integer size sets the capacity to it and is
\* answered +OK.
C22_LimitValidated ==
    [][ (last'.op = "LIMIT" /\ last'.arg # <<>>) =>
          IF ~IsInteger(last'.arg) \/ last'.num.n <= 0
          THEN /\ last'.reply \in ErrReplies
               /\ maxCacheItems' = maxCacheItems
               /\ cache' = cache
          ELSE /\ last'.reply = sendOK
               /\ maxCacheItems' = last'.num.n ]_vars

====
